---- MODULE Spec2Model ----
(***************************************************************************)
(* property-graph: the Graph edge index, GraphNode attribute slots, the    *)
(* RefList / RefSet / RefMap collections and the GraphEdge lifecycle.      *)
(*                                                                         *)
(* Every operation of the library is synchronous and runs to completion,   *)
(* so one action of the model is one public call.  The operations are      *)
(* state transformers over a record s that holds the whole object graph;   *)
(* a thrown Error is the field s.err, and everything the call did before   *)
(* the throw stays in s, as it does in the program.                        *)
(***************************************************************************)
EXTENDS Integers, Sequences, FiniteSets, TLC

(***************************************************************************)
(* Bounds.                                                                 *)
(***************************************************************************)
\* Number of GraphEdge objects made by calls that the program holds at once.
MaxEdges == 2
\* How many times in a row one resource is added to a list.
MaxDup == 3
\* Number of onDispose registrations on one Link.
MaxListeners == 3

(***************************************************************************)
(* The universe: two graphs, three nodes on the first and one on the       *)
(* second.  Every node is a Person (the test class) with the reference     *)
(* attributes partner, friends, recentCalls and relatives; a node may      *)
(* also compose a child through the default-populated attribute pet.       *)
(***************************************************************************)
Graphs == {"gA", "gB"}
Nodes == {"r", "a", "b", "x"}
NoNode == "null"
Keys == {"k1", "k2"}
NoKey == "nokey"
Labels == {"x"}
NoLabel == "nolabel"
NoError == "ok"

\* GraphNode.graph: fixed at construction, never reassigned.
graph == [n \in Nodes |-> IF n = "x" THEN "gB" ELSE "gA"]

\* Attribute names in the order getDefaults() lists them (for..in order).
AttrOrder == <<"partner", "friends", "recentCalls", "relatives", "pet">>
Attrs == {AttrOrder[i] : i \in 1..Len(AttrOrder)}

NullRef == [t |-> "null"]
EdgeRef(e) == [t |-> "edge", ref |-> e]
EmptyRefList == [t |-> "RefList", list |-> <<>>]
\* RefSet: the Set of edges and the Map child -> edge, as its set of entries.
EmptyRefSet == [t |-> "RefSet", set |-> <<>>, map |-> {}]
EmptyRefMap == [t |-> "RefMap", map |-> <<>>]

\* Person.getDefaults(): partner null, friends RefSet, recentCalls RefList,
\* relatives RefMap.  pet is filled in by CreateAttributes.
getDefaults ==
  [partner |-> NullRef, friends |-> EmptyRefSet, recentCalls |-> EmptyRefList,
   relatives |-> EmptyRefMap, pet |-> NullRef]

\* Auxiliary attributes of an edge: an optional label and the map key.
Attributes(label, key) == [label |-> label, key |-> key]
NoAttributes == Attributes(NoLabel, NoKey)

VARIABLES
  edge,           \* every GraphEdge object constructed so far, by identity
  edges,          \* Graph._edges, per graph, in insertion order
  parentEdges,    \* Graph._parentEdges: owner -> its outgoing edges
  childEdges,     \* Graph._childEdges: resource -> its incoming edges
  attrs,          \* GraphNode[$attributes]
  immutableKeys,  \* GraphNode[$immutableKeys]
  disposed,       \* GraphNode._disposed
  link,           \* one Link object on its own: _disposed, _listeners, and the calls made to them
  run             \* the call in progress, step by step: its stack of frames (empty between calls)

vars == <<edge, edges, parentEdges, childEdges, attrs, immutableKeys, disposed, link, run>>

(***************************************************************************)
(* Sequence helpers (JS Array / insertion-ordered Set).                    *)
(***************************************************************************)
Range(q) == {q[i] : i \in 1..Len(q)}

RECURSIVE Without(_, _)
\* Set.delete(x) on an ordered set.
Without(q, x) ==
  IF q = <<>> THEN <<>>
  ELSE IF Head(q) = x THEN Without(Tail(q), x)
  ELSE <<Head(q)>> \o Without(Tail(q), x)

RECURSIVE WithoutFirst(_, _)
\* Array.indexOf + splice(index, 1): removes the first occurrence only.
WithoutFirst(q, x) ==
  IF q = <<>> THEN <<>>
  ELSE IF Head(q) = x THEN Tail(q)
  ELSE <<Head(q)>> \o WithoutFirst(Tail(q), x)

\* Set.add(x) on an ordered set.
With(q, x) == IF x \in Range(q) THEN q ELSE Append(q, x)

RECURSIVE Dedup(_)
\* Array.from(new Set(q)): first occurrences, in order.
Dedup(q) ==
  IF q = <<>> THEN <<>>
  ELSE <<Head(q)>> \o Dedup(Without(Tail(q), Head(q)))

Throw(s, msg) == [s EXCEPT !.err = msg]
Ok(s) == s.err = NoError

(***************************************************************************)
(* Graph                                                                   *)
(***************************************************************************)
listEdges(s, g) == s.edges[g]
\* A listParentEdges that looks in the outgoing buckets.
listParentEdgesOfOwner(s, g, node) == s.parentEdges[g][node]
listParentEdges(s, g, node) == s.childEdges[g][node]
listChildEdges(s, g, node) == s.parentEdges[g][node]
\* A listParents that returns the owner of every edge, without the Set.
listParentsOfEveryEdge(s, g, node) ==
  LET q == listParentEdges(s, g, node)
  IN [i \in 1..Len(q) |-> s.edge[q[i]].parent]
listParents(s, g, node) ==
  LET q == listParentEdges(s, g, node)
  IN Dedup([i \in 1..Len(q) |-> s.edge[q[i]].parent])
listChildren(s, g, node) ==
  LET q == listChildEdges(s, g, node)
  IN Dedup([i \in 1..Len(q) |-> s.edge[q[i]].child])

\* A canLink that accepts every pair of nodes.
canLinkAnything(parent, child) == TRUE
\* Link constructor: owner and resource must be on the same graph.
canLink(parent, child) == graph[parent] = graph[child]

\* A _createEdge that registers the edge in the master set before the
\* constructor has accepted it.
CreateEdgeRegistersFirst(s, g, name, a, b, attributes) ==
  LET e == Len(s.edge) + 1
      s1 == [s EXCEPT
               !.edge = Append(@, [name |-> name, parent |-> a, child |-> b,
                                   attributes |-> attributes, disposed |-> FALSE]),
               !.edges[g] = With(@, e)]
  IN IF ~canLink(a, b) THEN Throw(s1, "Cannot link disconnected graphs.")
     ELSE [s1 EXCEPT !.parentEdges[g][a] = With(@, e), !.childEdges[g][b] = With(@, e)]
\* Graph._createEdge: construct the edge (which may throw), then register it
\* in the master set and in both buckets.  The new edge is Len(s.edge).
CreateEdge(s, g, name, a, b, attributes) ==
  IF ~canLink(a, b) THEN Throw(s, "Cannot link disconnected graphs.")
  ELSE LET e == Len(s.edge) + 1
       IN [s EXCEPT
             !.edge = Append(@, [name |-> name, parent |-> a, child |-> b,
                                 attributes |-> attributes, disposed |-> FALSE]),
             !.edges[g] = With(@, e),
             !.parentEdges[g][a] = With(@, e),
             !.childEdges[g][b] = With(@, e)]

\* A _destroyEdge that forgets the incoming bucket.
DestroyEdgeKeepsIncoming(s, g, e) ==
  [s EXCEPT !.edges[g] = Without(@, e),
            !.parentEdges[g][s.edge[e].parent] = Without(@, e)]
\* Graph._destroyEdge
DestroyEdge(s, g, e) ==
  [s EXCEPT !.edges[g] = Without(@, e),
            !.parentEdges[g][s.edge[e].parent] = Without(@, e),
            !.childEdges[g][s.edge[e].child] = Without(@, e)]

(***************************************************************************)
(* Link: the disposal listeners of an edge                                 *)
(***************************************************************************)
Listeners == {"f1", "f2", "f3"}
NewLink == [disposed |-> FALSE, listeners |-> <<>>, invoked |-> <<>>]
\* Link.onDispose(fn)
LinkOnDispose(l, fn) == [l EXCEPT !.listeners = Append(@, fn)]
\* A dispose that does not look at _disposed.
LinkDisposeAgain(l) ==
  [l EXCEPT !.disposed = TRUE, !.invoked = @ \o l.listeners, !.listeners = <<>>]
\* Link.dispose: invoked records the listeners forEach calls, in order.
LinkDispose(l) ==
  IF l.disposed THEN l
  ELSE [l EXCEPT !.disposed = TRUE, !.invoked = @ \o l.listeners, !.listeners = <<>>]

(***************************************************************************)
(* Reference collections                                                   *)
(***************************************************************************)
RefListAdd(v, ref) == [v EXCEPT !.list = Append(@, ref)]
RefListRemove(v, ref) == [v EXCEPT !.list = WithoutFirst(@, ref)]
\* A listRefsByChild that stops at the first match.
RefListFirstRefByChild(s, v, child) ==
  LET q == SelectSeq(v.list, LAMBDA e : s.edge[e].child = child)
  IN IF q = <<>> THEN q ELSE <<Head(q)>>
\* RefList.listRefsByChild(child)
RefListListRefsByChild(s, v, child) ==
  SelectSeq(v.list, LAMBDA e : s.edge[e].child = child)

\* Map.delete(child)
MapDelete(map, child) == {p \in map : p[1] # child}
\* RefSet.remove(ref): set.delete(ref); map.delete(ref.getChild()).
RefSetRemove(s, v, ref) ==
  [v EXCEPT !.set = Without(@, ref), !.map = MapDelete(@, s.edge[ref].child)]
\* Map.has(child) / RefSet.getRefByChild(child) for a child the map has.
RefSetHas(v, child) == \E p \in v.map : p[1] = child
RefSetGetRefByChild(v, child) == (CHOOSE p \in v.map : p[1] = child)[2]
\* RefSet.removeChild(child)
RefSetRemoveChild(s, v, child) ==
  IF RefSetHas(v, child) THEN RefSetRemove(s, v, RefSetGetRefByChild(v, child)) ELSE v
\* RefSet.add(ref)
RefSetAdd(s, v, ref) ==
  LET child == s.edge[ref].child
      v1 == RefSetRemoveChild(s, v, child)
  IN [v1 EXCEPT !.set = With(@, ref), !.map = MapDelete(@, child) \cup {<<child, ref>>}]

RefMapKeys(v) == [i \in 1..Len(v.map) |-> v.map[i].key]
RefMapValues(v) == [i \in 1..Len(v.map) |-> v.map[i].ref]
\* RefMap.get(key) for a key the map has.
RefMapHas(v, key) == \E i \in 1..Len(v.map) : v.map[i].key = key
RefMapGet(v, key) == v.map[CHOOSE j \in 1..Len(v.map) : v.map[j].key = key].ref
\* RefMap.set(key, ref): an existing key keeps its position, a new key goes last.
RefMapSet(v, key, ref) ==
  IF RefMapHas(v, key)
  THEN [v EXCEPT !.map = [i \in 1..Len(v.map) |->
                            IF v.map[i].key = key THEN [key |-> key, ref |-> ref] ELSE v.map[i]]]
  ELSE [v EXCEPT !.map = Append(@, [key |-> key, ref |-> ref])]
RefMapDelete(v, key) == [v EXCEPT !.map = SelectSeq(@, LAMBDA kv : kv.key # key)]

(***************************************************************************)
(* GraphNode: events                                                       *)
(***************************************************************************)
Event(on, type, target, attribute, key) ==
  [on |-> on, type |-> type, target |-> target, attribute |-> attribute, key |-> key]

\* The type under which the graph re-dispatches a node event.
GraphType(type) == IF type = "change" THEN "node:change" ELSE "node:dispose"

\* What a listener of n's dispose event finds when it is invoked and asks
\* n.isDisposed() and the graph for the edges of n: listeners run
\* synchronously inside dispatchEvent, in the state of that moment.
Found(s, n) ==
  [target |-> n,
   isDisposed |-> s.disposed[n],
   indexed |-> {e \in Range(listEdges(s, graph[n])) : n \in {s.edge[e].parent, s.edge[e].child}}
               \cup Range(listChildEdges(s, graph[n], n))
               \cup Range(listParentEdges(s, graph[n], n))]
Listen(s, n, type) == IF type = "dispose" THEN s.found \o <<Found(s, n)>> ELSE s.found

\* A dispatchEvent that tells the graph about changes only.
DispatchEventLocally(s, n, type, attribute, key) ==
  [s EXCEPT !.log = @ \o
     IF type = "change"
     THEN << Event(n, type, n, attribute, key), Event(graph[n], GraphType(type), n, attribute, key) >>
     ELSE << Event(n, type, n, attribute, key) >>,
     !.found = Listen(s, n, type)]
\* GraphNode.dispatchEvent: on the node, then on its graph as node:<type>.
DispatchEvent(s, n, type, attribute, key) ==
  [s EXCEPT !.log = @ \o
     << Event(n, type, n, attribute, key),
        Event(graph[n], GraphType(type), n, attribute, key) >>,
     !.found = Listen(s, n, type)]

(***************************************************************************)
(* Disposal: GraphEdge.dispose, GraphNode._destroyRef, GraphNode.dispose   *)
(* and Graph.disconnectParents call each other.                            *)
(***************************************************************************)
RECURSIVE EdgeDispose(_, _), OnEdgeDispose(_, _), DestroyRef(_, _, _),
          NodeDispose(_, _), DisposeEach(_, _), DestroyRefMapKeys(_, _, _)

\* forEach((edge) => edge.dispose()) over an array taken before the loop.
DisposeEach(s, q) ==
  IF q = <<>> THEN s ELSE DisposeEach(EdgeDispose(s, Head(q)), Tail(q))

\* A disconnectParents that disposes every edge of the graph.
DisconnectEverything(s, g, node, accept) == DisposeEach(s, listEdges(s, g))
\* Graph.disconnectParents(node, filter): accept is the set of owners the
\* filter lets through.
DisconnectParents(s, g, node, accept) ==
  DisposeEach(s, SelectSeq(listParentEdges(s, g, node),
                           LAMBDA e : s.edge[e].parent \in accept))

\* A dispose that marks the edge and notifies nobody.
EdgeDisposeSilently(s, e) ==
  IF s.edge[e].disposed THEN s ELSE [s EXCEPT !.edge[e].disposed = TRUE]
\* Link.dispose: no-op when disposed, else mark disposed and notify.
EdgeDispose(s, e) ==
  IF s.edge[e].disposed THEN s
  ELSE OnEdgeDispose([s EXCEPT !.edge[e].disposed = TRUE], e)

\* What an edge notifies at disposal: the reciprocal hook of its owner.
OnEdgeDispose(s, e) == DestroyRef(s, s.edge[e].parent, e)

\* The RefMap branch of _destroyRef: for (key of refMap.keys()) if get(key) === ref, delete.
DestroyRefMapKeys(v, ks, ref) ==
  IF ks = <<>> THEN v
  ELSE DestroyRefMapKeys(IF RefMapHas(v, Head(ks)) /\ RefMapGet(v, Head(ks)) = ref THEN RefMapDelete(v, Head(ks)) ELSE v,
                         Tail(ks), ref)

\* A _destroyRef that treats an immutable slot like any other.
DestroyRefNoCascade(s, n, ref) ==
  LET attribute == s.edge[ref].name
      value == s.attrs[n][attribute]
      finish(t) == DispatchEvent(DestroyEdge(t, graph[n], ref), n, "change", attribute, NoKey)
  IN IF value.t = "edge" /\ value.ref = ref THEN
       finish([s EXCEPT !.attrs[n][attribute] = NullRef])
     ELSE IF value.t = "RefList" THEN
       finish([s EXCEPT !.attrs[n][attribute] = RefListRemove(value, ref)])
     ELSE IF value.t = "RefSet" THEN
       finish([s EXCEPT !.attrs[n][attribute] = RefSetRemove(s, value, ref)])
     ELSE IF value.t = "RefMap" THEN
       finish([s EXCEPT !.attrs[n][attribute] = DestroyRefMapKeys(value, RefMapKeys(value), ref)])
     ELSE s
\* GraphNode._destroyRef
DestroyRef(s, n, ref) ==
  LET attribute == s.edge[ref].name
      value == s.attrs[n][attribute]
      finish(t) == DispatchEvent(DestroyEdge(t, graph[n], ref), n, "change", attribute, NoKey)
  IN IF value.t = "edge" /\ value.ref = ref THEN
       LET s1 == [s EXCEPT !.attrs[n][attribute] = NullRef]
           s2 == IF attribute \in s1.immutableKeys[n]
                 THEN NodeDispose(s1, s1.edge[ref].child) ELSE s1
       IN finish(s2)
     ELSE IF value.t = "RefList" THEN
       finish([s EXCEPT !.attrs[n][attribute] = RefListRemove(value, ref)])
     ELSE IF value.t = "RefSet" THEN
       finish([s EXCEPT !.attrs[n][attribute] = RefSetRemove(s, value, ref)])
     ELSE IF value.t = "RefMap" THEN
       finish([s EXCEPT !.attrs[n][attribute] = DestroyRefMapKeys(value, RefMapKeys(value), ref)])
     ELSE s

\* A dispose without the `if (this._disposed) return`.
NodeDisposeAgain(s, n) ==
  LET s1 == DisposeEach(s, listChildEdges(s, graph[n], n))
      s2 == DisconnectParents(s1, graph[n], n, Nodes)
      s3 == [s2 EXCEPT !.disposed[n] = TRUE]
  IN DispatchEvent(s3, n, "dispose", "", NoKey)
\* GraphNode.dispose
NodeDispose(s, n) ==
  IF s.disposed[n] THEN s
  ELSE LET s1 == DisposeEach(s, listChildEdges(s, graph[n], n))
           s2 == DisconnectParents(s1, graph[n], n, Nodes)
           s3 == [s2 EXCEPT !.disposed[n] = TRUE]
       IN DispatchEvent(s3, n, "dispose", "", NoKey)

\* GraphNode.detach
NodeDetach(s, n) == DisconnectParents(s, graph[n], n, Nodes)

(***************************************************************************)
(* GraphNode: reference accessors                                          *)
(***************************************************************************)
getRef(s, n, attribute) ==
  LET ref == s.attrs[n][attribute]
  IN IF ref.t = "edge" THEN s.edge[ref.ref].child ELSE NoNode

\* A setRef that lets null through to an immutable slot.
setRefClearsImmutable(s, n, attribute, value, attributes) ==
  IF attribute \in s.immutableKeys[n] /\ value # NoNode
  THEN Throw(s, "Cannot overwrite immutable attribute")
  ELSE LET prevRef == s.attrs[n][attribute]
           s1 == IF prevRef.t = "edge" THEN EdgeDispose(s, prevRef.ref) ELSE s
       IN IF value = NoNode THEN s1
          ELSE LET s2 == CreateEdge(s1, graph[n], attribute, n, value, attributes)
               IN IF ~Ok(s2) THEN s2
                  ELSE DispatchEvent([s2 EXCEPT !.attrs[n][attribute] = EdgeRef(Len(s2.edge))],
                                     n, "change", attribute, NoKey)
\* GraphNode.setRef
setRef(s, n, attribute, value, attributes) ==
  IF attribute \in s.immutableKeys[n] THEN Throw(s, "Cannot overwrite immutable attribute")
  ELSE LET prevRef == s.attrs[n][attribute]
           s1 == IF prevRef.t = "edge" THEN EdgeDispose(s, prevRef.ref) ELSE s
       IN IF value = NoNode THEN s1
          ELSE LET s2 == CreateEdge(s1, graph[n], attribute, n, value, attributes)
               IN IF ~Ok(s2) THEN s2
                  ELSE DispatchEvent([s2 EXCEPT !.attrs[n][attribute] = EdgeRef(Len(s2.edge))],
                                     n, "change", attribute, NoKey)

\* listRefs / listRefMapValues: the resources of the edges a slot holds.
SlotEdges(v) ==
  IF v.t = "edge" THEN <<v.ref>>
  ELSE IF v.t = "RefList" THEN v.list
  ELSE IF v.t = "RefSet" THEN v.set
  ELSE IF v.t = "RefMap" THEN RefMapValues(v)
  ELSE <<>>
listRefs(s, n, attribute) ==
  LET q == SlotEdges(s.attrs[n][attribute]) IN [i \in 1..Len(q) |-> s.edge[q[i]].child]

addRef(s, n, attribute, value, attributes) ==
  LET s1 == CreateEdge(s, graph[n], attribute, n, value, attributes)
  IN IF ~Ok(s1) THEN s1
     ELSE LET ref == Len(s1.edge)
              refs == s1.attrs[n][attribute]
          IN IF refs.t = "RefList" THEN
               DispatchEvent([s1 EXCEPT !.attrs[n][attribute] = RefListAdd(refs, ref)],
                             n, "change", attribute, NoKey)
             ELSE IF refs.t = "RefSet" THEN
               DispatchEvent([s1 EXCEPT !.attrs[n][attribute] = RefSetAdd(s1, refs, ref)],
                             n, "change", attribute, NoKey)
             ELSE Throw(s1, "Expected RefList or RefSet")

\* A removeRef that insists on the resource being in the set.
removeRefStrict(s, n, attribute, value) ==
  LET refs == s.attrs[n][attribute]
  IN IF refs.t = "RefList" THEN DisposeEach(s, RefListListRefsByChild(s, refs, value))
     ELSE IF refs.t = "RefSet" THEN
       IF RefSetHas(refs, value) THEN EdgeDispose(s, RefSetGetRefByChild(refs, value))
       ELSE Throw(s, "Expected a reference")
     ELSE Throw(s, "Expected RefList or RefSet")
\* GraphNode.removeRef
removeRef(s, n, attribute, value) ==
  LET refs == s.attrs[n][attribute]
  IN IF refs.t = "RefList" THEN DisposeEach(s, RefListListRefsByChild(s, refs, value))
     ELSE IF refs.t = "RefSet" THEN
       IF RefSetHas(refs, value) THEN EdgeDispose(s, RefSetGetRefByChild(refs, value)) ELSE s
     ELSE Throw(s, "Expected RefList or RefSet")

\* A setRefMap that hands the caller's metadata to the edge as it is.
setRefMapKeepsMetadata(s, n, attribute, key, value, metadata) ==
  LET refMap == s.attrs[n][attribute]
  IN IF refMap.t # "RefMap" THEN Throw(s, "Expected RefMap")
     ELSE LET s1 == IF RefMapHas(refMap, key) THEN EdgeDispose(s, RefMapGet(refMap, key)) ELSE s
          IN IF value = NoNode THEN s1
             ELSE LET s2 == CreateEdge(s1, graph[n], attribute, n, value, metadata)
                  IN IF ~Ok(s2) THEN s2
                     ELSE DispatchEvent(
                            [s2 EXCEPT !.attrs[n][attribute] = RefMapSet(@, key, Len(s2.edge))],
                            n, "change", attribute, key)
\* GraphNode.setRefMap: the edge's attributes are the metadata with key set.
setRefMap(s, n, attribute, key, value, metadata) ==
  LET refMap == s.attrs[n][attribute]
  IN IF refMap.t # "RefMap" THEN Throw(s, "Expected RefMap")
     ELSE LET s1 == IF RefMapHas(refMap, key) THEN EdgeDispose(s, RefMapGet(refMap, key)) ELSE s
          IN IF value = NoNode THEN s1
             ELSE LET s2 == CreateEdge(s1, graph[n], attribute, n, value,
                                       [metadata EXCEPT !.key = key])
                  IN IF ~Ok(s2) THEN s2
                     ELSE DispatchEvent(
                            [s2 EXCEPT !.attrs[n][attribute] = RefMapSet(@, key, Len(s2.edge))],
                            n, "change", attribute, key)

(***************************************************************************)
(* GraphNode.swap                                                          *)
(***************************************************************************)
RECURSIVE SwapList(_, _, _, _, _, _), SwapMap(_, _, _, _, _, _), SwapAttrs(_, _, _, _, _)

\* The RefList branch: for (ref of value.listRefsByChild(prev)) removeRef; addRef.
SwapList(s, n, attribute, prevValue, nextValue, refs) ==
  IF refs = <<>> \/ ~Ok(s) THEN s
  ELSE LET refAttributes == s.edge[Head(refs)].attributes
           s1 == removeRef(s, n, attribute, prevValue)
           s2 == IF Ok(s1) THEN addRef(s1, n, attribute, nextValue, refAttributes) ELSE s1
       IN SwapList(s2, n, attribute, prevValue, nextValue, Tail(refs))

\* The RefMap branch: for (key of value.keys()) if get(key).getChild() === prev, setRefMap.
SwapMap(s, n, attribute, prevValue, nextValue, ks) ==
  IF ks = <<>> \/ ~Ok(s) THEN s
  ELSE LET refMap == s.attrs[n][attribute]
           s1 == IF RefMapHas(refMap, Head(ks))
                    /\ s.edge[RefMapGet(refMap, Head(ks))].child = prevValue
                 THEN setRefMap(s, n, attribute, Head(ks), nextValue,
                                s.edge[RefMapGet(refMap, Head(ks))].attributes)
                 ELSE s
       IN SwapMap(s1, n, attribute, prevValue, nextValue, Tail(ks))

\* A swap that repoints a single slot itself, without going through setRef.
SwapAttrRepoints(s, n, attribute, prevValue, nextValue) ==
  LET value == s.attrs[n][attribute]
  IN IF value.t = "edge" THEN
       IF s.edge[value.ref].child = prevValue
       THEN LET s1 == EdgeDispose(s, value.ref)
                s2 == CreateEdge(s1, graph[n], attribute, n, nextValue, s.edge[value.ref].attributes)
            IN IF ~Ok(s2) THEN s2
               ELSE DispatchEvent([s2 EXCEPT !.attrs[n][attribute] = EdgeRef(Len(s2.edge))],
                                  n, "change", attribute, NoKey)
       ELSE s
     ELSE IF value.t = "RefList" THEN
       SwapList(s, n, attribute, prevValue, nextValue, RefListListRefsByChild(s, value, prevValue))
     ELSE IF value.t = "RefSet" THEN
       IF RefSetHas(value, prevValue)
       THEN LET ref == RefSetGetRefByChild(value, prevValue)
                s1 == removeRef(s, n, attribute, prevValue)
            IN IF Ok(s1) THEN addRef(s1, n, attribute, nextValue, s.edge[ref].attributes) ELSE s1
       ELSE s
     ELSE IF value.t = "RefMap" THEN
       SwapMap(s, n, attribute, prevValue, nextValue, RefMapKeys(value))
     ELSE s
\* GraphNode.swap, the body of its loop over the attributes.
SwapAttr(s, n, attribute, prevValue, nextValue) ==
  LET value == s.attrs[n][attribute]
  IN IF value.t = "edge" THEN
       IF s.edge[value.ref].child = prevValue
       THEN setRef(s, n, attribute, nextValue, s.edge[value.ref].attributes)
       ELSE s
     ELSE IF value.t = "RefList" THEN
       SwapList(s, n, attribute, prevValue, nextValue, RefListListRefsByChild(s, value, prevValue))
     ELSE IF value.t = "RefSet" THEN
       IF RefSetHas(value, prevValue)
       THEN LET ref == RefSetGetRefByChild(value, prevValue)
                s1 == removeRef(s, n, attribute, prevValue)
            IN IF Ok(s1) THEN addRef(s1, n, attribute, nextValue, s.edge[ref].attributes) ELSE s1
       ELSE s
     ELSE IF value.t = "RefMap" THEN
       SwapMap(s, n, attribute, prevValue, nextValue, RefMapKeys(value))
     ELSE s

SwapAttrs(s, n, as, prevValue, nextValue) ==
  IF as = <<>> \/ ~Ok(s) THEN s
  ELSE SwapAttrs(SwapAttr(s, n, Head(as), prevValue, nextValue), n, Tail(as), prevValue, nextValue)

swap(s, n, prevValue, nextValue) == SwapAttrs(s, n, AttrOrder, prevValue, nextValue)

(***************************************************************************)
(* Construction                                                            *)
(***************************************************************************)
\* GraphNode._createAttributes for a node whose getDefaults() returns the
\* node pet for the attribute "pet" (or no node at all).
CreateAttributes(s, n, pet) ==
  LET s0 == [s EXCEPT !.attrs[n] = getDefaults]
  IN IF pet = NoNode THEN s0
     ELSE LET s1 == CreateEdge(s0, graph[n], "pet", n, pet, NoAttributes)
          IN IF ~Ok(s1) THEN s1
             ELSE [s1 EXCEPT !.immutableKeys[n] = @ \cup {"pet"},
                             !.attrs[n]["pet"] = EdgeRef(Len(s1.edge))]

Blank ==
  [edge |-> <<>>,
   edges |-> [g \in Graphs |-> <<>>],
   parentEdges |-> [g \in Graphs |-> [n \in Nodes |-> <<>>]],
   childEdges |-> [g \in Graphs |-> [n \in Nodes |-> <<>>]],
   attrs |-> [n \in Nodes |-> getDefaults],
   immutableKeys |-> [n \in Nodes |-> {}],
   disposed |-> [n \in Nodes |-> FALSE],
   log |-> <<>>,
   found |-> <<>>,
   err |-> NoError]

\* The compositions the nodes are constructed with: which node each node's
\* getDefaults() returns as its pet.  A child is constructed before its owner.
Layouts ==
  { [n \in Nodes |-> NoNode],
    [n \in Nodes |-> IF n = "r" THEN "a" ELSE IF n = "a" THEN "b" ELSE NoNode] }

ConstructionOrder == <<"x", "b", "a", "r">>

RECURSIVE Construct(_, _, _)
Construct(s, order, layout) ==
  IF order = <<>> THEN s
  ELSE Construct(CreateAttributes(s, Head(order), layout[Head(order)]), Tail(order), layout)

(***************************************************************************)
(* The state machine                                                       *)
(***************************************************************************)
\* No call is in progress: the stack is empty.
NoCall == [op |-> "none", n |-> NoNode, e |-> 0]
Idle == [stack |-> <<>>, call |-> NoCall, entry |-> Blank]

Cur ==
  [edge |-> edge, edges |-> edges, parentEdges |-> parentEdges, childEdges |-> childEdges,
   attrs |-> attrs, immutableKeys |-> immutableKeys, disposed |-> disposed,
   log |-> <<>>, found |-> <<>>, err |-> NoError]

\* Does the program still hold the edge object e?  An edge is only ever
\* stored in the three indices of its owner's graph (under its owner and its
\* resource) and in the slot of its owner that carries its name.
IsHeld(s, e) ==
  LET g == graph[s.edge[e].parent]
      v == s.attrs[s.edge[e].parent][s.edge[e].name]
  IN \/ e \in Range(s.edges[g])
     \/ e \in Range(s.parentEdges[g][s.edge[e].parent])
     \/ e \in Range(s.childEdges[g][s.edge[e].child])
     \/ e \in Range(SlotEdges(v))
     \/ v.t = "RefSet" /\ \E p \in v.map : p[2] = e

\* An edge object that no index and no slot holds is garbage: nothing in the
\* program leads to it any more.  Collect drops the garbage and renumbers
\* the remaining objects in creation order, so that object identities are
\* 1..Len(edge) in every state; the relative order of the objects, which is
\* all the program can observe of an identity besides equality, is kept.
Ranked(rank, q) == [i \in 1..Len(q) |-> rank[q[i]]]
CollectSlot(rank, v) ==
  IF v.t = "edge" THEN EdgeRef(rank[v.ref])
  ELSE IF v.t = "RefList" THEN [v EXCEPT !.list = Ranked(rank, @)]
  ELSE IF v.t = "RefSet" THEN
    [v EXCEPT !.set = Ranked(rank, @), !.map = {<<p[1], rank[p[2]]>> : p \in @}]
  ELSE IF v.t = "RefMap" THEN
    [v EXCEPT !.map = [i \in 1..Len(v.map) |->
                         [key |-> v.map[i].key, ref |-> rank[v.map[i].ref]]]]
  ELSE v
Collect(s) ==
  LET held == {e \in 1..Len(s.edge) : IsHeld(s, e)}
      live == SelectSeq([i \in 1..Len(s.edge) |-> i], LAMBDA e : e \in held)
      rank == [e \in 1..Len(s.edge) |-> Cardinality({h \in held : h <= e})]
  IN IF Cardinality(held) = Len(s.edge) THEN s
     ELSE [s EXCEPT
        !.edge = [i \in 1..Len(live) |-> s.edge[live[i]]],
        !.edges = [g \in Graphs |-> Ranked(rank, s.edges[g])],
        !.parentEdges = [g \in Graphs |-> [n \in Nodes |-> Ranked(rank, s.parentEdges[g][n])]],
        !.childEdges = [g \in Graphs |-> [n \in Nodes |-> Ranked(rank, s.childEdges[g][n])]],
        !.attrs = [n \in Nodes |-> [a \in Attrs |-> CollectSlot(rank, s.attrs[n][a])]]]

\* The call returns (or throws): its effects become the new state.  The
\* edges made by calls count against MaxEdges; those made at construction,
\* one per composed child, do not.
ByCalls(s) == {e \in 1..Len(s.edge) : s.edge[e].name # "pet"}

Commit(s) ==
  \E c \in {Collect(s)} :
     /\ Cardinality(ByCalls(c)) <= MaxEdges
     /\ edge' = c.edge
     /\ edges' = c.edges
     /\ parentEdges' = c.parentEdges
     /\ childEdges' = c.childEdges
     /\ attrs' = c.attrs
     /\ immutableKeys' = c.immutableKeys
     /\ disposed' = c.disposed
     /\ UNCHANGED <<link, run>>

InitWith(layouts) ==
  \E layout \in layouts :
    LET s == Construct(Blank, ConstructionOrder, layout)
    IN /\ edge = s.edge
       /\ edges = s.edges
       /\ parentEdges = s.parentEdges
       /\ childEdges = s.childEdges
       /\ attrs = s.attrs
       /\ immutableKeys = s.immutableKeys
       /\ disposed = s.disposed
       /\ link = NewLink
       /\ run = Idle

Init == InitWith(Layouts)

(***************************************************************************)
(* The calls the environment makes.  Every action takes the set of calls   *)
(* it may choose from, so that a specification fixes its own universe.     *)
(***************************************************************************)
Call(n, attribute, value, label, key) ==
  [n |-> n, attribute |-> attribute, value |-> value, label |-> label, key |-> key]
SwapCall(n, prevValue, nextValue) == [n |-> n, prevValue |-> prevValue, nextValue |-> nextValue]

SetRef(calls) ==
  \E c \in calls :
    Commit(setRef(Cur, c.n, c.attribute, c.value, Attributes(c.label, NoKey)))

AddRef(calls) ==
  \E c \in calls :
    Commit(addRef(Cur, c.n, c.attribute, c.value, Attributes(c.label, NoKey)))

RemoveRef(calls) ==
  \E c \in calls :
    Commit(removeRef(Cur, c.n, c.attribute, c.value))

\* c.label is the metadata's own key entry, if any.
SetRefMap(calls) ==
  \E c \in calls :
    Commit(setRefMap(Cur, c.n, c.attribute, c.key, c.value, Attributes(NoLabel, c.label)))

Swap(calls) ==
  \E c \in calls :
    Commit(swap(Cur, c.n, c.prevValue, c.nextValue))

Detach(nodes) ==
  \E n \in nodes :
    Commit(NodeDetach(Cur, n))

Dispose(nodes) ==
  \E n \in nodes :
    Commit(NodeDispose(Cur, n))

\* edge.dispose() on an edge object obtained from the graph (or kept from before).
DisposeEdge ==
  \E e \in 1..Len(edge) :
    Commit(EdgeDispose(Cur, e))

(***************************************************************************)
(* Spec: r is the node the application works through.  It uses every kind  *)
(* of slot, with a and b as values.                                        *)
(***************************************************************************)
SetRefCalls == {Call("r", "partner", v, NoLabel, NoKey) : v \in {"a", "b", NoNode}}
AddRefCalls ==
  {Call("r", at, v, NoLabel, NoKey) : at \in {"friends", "recentCalls"}, v \in {"a", "b"}}
RemoveRefCalls ==
  {Call("r", at, v, NoLabel, NoKey) : at \in {"friends", "recentCalls"}, v \in {"a", "b"}}
SetRefMapCalls == {Call("r", "relatives", v, NoKey, "k1") : v \in {"a", "b", NoNode}}
SwapCalls == {SwapCall("r", "a", "b"), SwapCall("r", "b", "a")}
\* The nodes of the first graph.
Local == {"r", "a", "b"}

Next ==
  \/ SetRef(SetRefCalls)
  \/ AddRef(AddRefCalls)
  \/ RemoveRef(RemoveRefCalls)
  \/ SetRefMap(SetRefMapCalls)
  \/ Swap(SwapCalls)
  \/ Detach(Local)
  \/ Dispose(Local)
  \/ DisposeEdge

Spec == Init /\ [][Next]_vars

(***************************************************************************)
(* SpecList: r keeps a call list (with duplicates) next to a friend set.   *)
(***************************************************************************)
ListAddCalls ==
  {Call("r", "recentCalls", v, NoLabel, NoKey) : v \in Local}
  \cup {Call("r", "friends", "a", NoLabel, NoKey)}
ListRemoveCalls == {Call("r", "recentCalls", v, NoLabel, NoKey) : v \in Local}

NextList ==
  \/ AddRef(ListAddCalls)
  \/ RemoveRef(ListRemoveCalls)
  \/ Detach(Local)
  \/ Dispose(Local)
  \/ DisposeEdge

SpecList == Init /\ [][NextList]_vars

(***************************************************************************)
(* SpecCross: two graphs.  r and x use their slots with nodes of their own *)
(* graph and of the other one.                                             *)
(***************************************************************************)
CrossSetRefCalls == {Call("r", "partner", v, NoLabel, NoKey) : v \in {"a", "x"}}
CrossAddRefCalls ==
  {Call("r", "friends", v, NoLabel, NoKey) : v \in {"a", "b", "x"}}
  \cup {Call("x", at, v, NoLabel, NoKey) : at \in {"friends", "recentCalls"}, v \in {"x", "a"}}
CrossSetRefMapCalls == {Call("r", "relatives", v, NoKey, "k1") : v \in {"b", "x"}}
CrossSwapCalls == {SwapCall("r", "a", "x"), SwapCall("x", "x", "r")}

NextCross ==
  \/ SetRef(CrossSetRefCalls)
  \/ AddRef(CrossAddRefCalls)
  \/ SetRefMap(CrossSetRefMapCalls)
  \/ Swap(CrossSwapCalls)
  \/ Detach({"a", "x"})
  \/ Dispose({"a", "x"})

SpecCross == Init /\ [][NextCross]_vars

(***************************************************************************)
(* SpecSlots: r works with its single reference and with both keys of its *)
(* map.                                                                    *)
(***************************************************************************)
SlotsSetRefMapCalls ==
  {Call("r", "relatives", v, NoKey, k) : v \in {"a", "b", NoNode}, k \in Keys}

NextSlots ==
  \/ DisposeEdge
  \/ Swap(SwapCalls)
  \/ SetRef(SetRefCalls)
  \/ SetRefMap(SlotsSetRefMapCalls)
  \/ Detach(Local)
  \/ Dispose(Local)

SpecSlots == Init /\ [][NextSlots]_vars

(***************************************************************************)
(* SpecShared: the getDefaults() of r and of a return the same node b, so  *)
(* both are constructed with b in their default-populated slot.            *)
(***************************************************************************)
SharedLayout == [n \in Nodes |-> IF n \in {"r", "a"} THEN "b" ELSE NoNode]
InitShared == InitWith({SharedLayout})
SharedAddCalls ==
  {Call("r", at, v, NoLabel, NoKey) : at \in {"friends", "recentCalls"}, v \in {"a", "b"}}

NextShared ==
  \/ AddRef(SharedAddCalls)
  \/ Detach(Local)
  \/ Dispose(Local)
  \/ DisposeEdge

SpecShared == InitShared /\ [][NextShared]_vars

(***************************************************************************)
(* SpecLink: listeners are registered on one Link and the Link is disposed,*)
(* in any order.                                                           *)
(***************************************************************************)
graphVars == <<edge, edges, parentEdges, childEdges, attrs, immutableKeys, disposed>>

OnDispose ==
  \E fn \in Listeners :
    /\ Len(link.listeners) + Len(link.invoked) < MaxListeners
    /\ link' = LinkOnDispose(link, fn)
    /\ UNCHANGED <<graphVars, run>>

DisposeLink ==
  /\ link' = LinkDispose(link)
  /\ UNCHANGED <<graphVars, run>>

NextLink == OnDispose \/ DisposeLink

SpecLink == Init /\ [][NextLink]_vars


(***************************************************************************)
(* SpecRun: node.dispose(), node.detach() and edge.dispose() step by step. *)
(* A call in progress is a stack of frames, one for each invocation that   *)
(* has not returned yet; a step runs the top frame up to its next call or  *)
(* to its return.  r and a build reference cycles, self-references and     *)
(* duplicates, next to the chain of composed children.                     *)
(***************************************************************************)
\* No call nests deeper than this.
MaxDepth == 12

Frame(op, n, e, pc, todo) == [op |-> op, n |-> n, e |-> e, pc |-> pc, todo |-> todo]
Top == run.stack[Len(run.stack)]
\* The top frame returns; it goes on as frame f; it goes on as f and calls g.
Return == [run EXCEPT !.stack = SubSeq(@, 1, Len(@) - 1)]
Goto(f) == [run EXCEPT !.stack = SubSeq(@, 1, Len(@) - 1) \o <<f>>]
Invoke(f, g) == [run EXCEPT !.stack = SubSeq(@, 1, Len(@) - 1) \o <<f, g>>]

\* The step leaves the program in state s with the call at r.  When the
\* last frame has returned the call is over.
Continue(s, r) ==
  \E c \in {IF r.stack = <<>> THEN Collect(s) ELSE s} :
     /\ Len(r.stack) <= MaxDepth
     /\ edge' = c.edge
     /\ edges' = c.edges
     /\ parentEdges' = c.parentEdges
     /\ childEdges' = c.childEdges
     /\ attrs' = c.attrs
     /\ immutableKeys' = c.immutableKeys
     /\ disposed' = c.disposed
     /\ run' = IF r.stack = <<>> THEN Idle ELSE r
     /\ UNCHANGED link

\* The application makes a call while none is in progress.
Begin(op, n, e) ==
  /\ run.stack = <<>>
  /\ run' = [stack |-> <<Frame(op, n, e, "entry", <<>>)>>,
             call |-> [op |-> op, n |-> n, e |-> e],
             entry |-> Cur]
  /\ UNCHANGED <<edge, edges, parentEdges, childEdges, attrs, immutableKeys, disposed, link>>

StartDispose(nodes) == \E n \in nodes : Begin("dispose", n, 0)
StartDetach(nodes) == \E n \in nodes : Begin("detach", n, 0)
StartEdgeDispose == \E e \in 1..Len(edge) : Begin("edge", NoNode, e)

\* A dispose whose disconnectParents reads the incoming edges anew in every
\* round instead of looping over the array it took at the start.
StepNodeRereads ==
  /\ run.stack # <<>>
  /\ Top.op \in {"dispose", "detach"}
  /\ \E f \in {Top} :
       IF f.pc = "entry" THEN
         IF f.op = "dispose" /\ disposed[f.n] THEN Continue(Cur, Return)
         ELSE IF f.op = "dispose"
         THEN Continue(Cur, Goto([f EXCEPT !.pc = "children",
                                           !.todo = listChildEdges(Cur, graph[f.n], f.n)]))
         ELSE Continue(Cur, Goto([f EXCEPT !.pc = "parents"]))
       ELSE IF f.pc = "children" /\ f.todo # <<>> THEN
         Continue(Cur, Invoke([f EXCEPT !.todo = Tail(@)],
                              Frame("edge", NoNode, Head(f.todo), "entry", <<>>)))
       ELSE IF f.pc = "children" THEN Continue(Cur, Goto([f EXCEPT !.pc = "parents"]))
       ELSE IF listParentEdges(Cur, graph[f.n], f.n) # <<>> THEN
         Continue(Cur, Invoke(f, Frame("edge", NoNode,
                                       Head(listParentEdges(Cur, graph[f.n], f.n)), "entry", <<>>)))
       ELSE IF f.op = "dispose" THEN Continue([Cur EXCEPT !.disposed[f.n] = TRUE], Return)
       ELSE Continue(Cur, Return)
\* GraphNode.dispose and GraphNode.detach: return at once when disposed;
\* edge.dispose() for each of the outgoing edges listed at the start; then
\* Graph.disconnectParents, edge.dispose() for each of the incoming edges
\* listed at its start; then _disposed = true and the dispose event.
\* detach is the disconnectParents part alone.
StepNode ==
  /\ run.stack # <<>>
  /\ Top.op \in {"dispose", "detach"}
  /\ \E f \in {Top} :
       IF f.pc = "entry" THEN
         IF f.op = "dispose" /\ disposed[f.n] THEN Continue(Cur, Return)
         ELSE IF f.op = "dispose"
         THEN Continue(Cur, Goto([f EXCEPT !.pc = "children",
                                           !.todo = listChildEdges(Cur, graph[f.n], f.n)]))
         ELSE Continue(Cur, Goto([f EXCEPT !.pc = "parents",
                                           !.todo = listParentEdges(Cur, graph[f.n], f.n)]))
       ELSE IF f.todo # <<>> THEN
         Continue(Cur, Invoke([f EXCEPT !.todo = Tail(@)],
                              Frame("edge", NoNode, Head(f.todo), "entry", <<>>)))
       ELSE IF f.pc = "children"
       THEN Continue(Cur, Goto([f EXCEPT !.pc = "parents",
                                         !.todo = listParentEdges(Cur, graph[f.n], f.n)]))
       ELSE IF f.op = "dispose" THEN Continue([Cur EXCEPT !.disposed[f.n] = TRUE], Return)
       ELSE Continue(Cur, Return)

\* What an edge calls at its disposal: the reciprocal hook of its owner.
OnEdgeDisposeFrame(e) == Frame("destroyRef", edge[e].parent, e, "entry", <<>>)

\* Link.dispose: return at once when disposed; else mark the edge disposed,
\* notify and return.
StepEdge ==
  /\ run.stack # <<>>
  /\ Top.op = "edge"
  /\ \E f \in {Top} :
       IF f.pc = "return" \/ edge[f.e].disposed THEN Continue(Cur, Return)
       ELSE Continue([Cur EXCEPT !.edge[f.e].disposed = TRUE],
                     Invoke([f EXCEPT !.pc = "return"], OnEdgeDisposeFrame(f.e)))

\* GraphNode._destroyRef: clear the slot, for an immutable slot call
\* dispose() of the child, and then take the edge out of the graph index.
StepDestroyRef ==
  /\ run.stack # <<>>
  /\ Top.op = "destroyRef"
  /\ \E f \in {Top} :
       LET attribute == edge[f.e].name
           value == attrs[f.n][attribute]
           finish(t) == DestroyEdge(t, graph[f.n], f.e)
       IN IF f.pc = "finish" THEN Continue(finish(Cur), Return)
          ELSE IF value.t = "edge" /\ value.ref = f.e THEN
            IF attribute \in immutableKeys[f.n]
            THEN Continue([Cur EXCEPT !.attrs[f.n][attribute] = NullRef],
                          Invoke([f EXCEPT !.pc = "finish"],
                                 Frame("dispose", edge[f.e].child, 0, "entry", <<>>)))
            ELSE Continue(finish([Cur EXCEPT !.attrs[f.n][attribute] = NullRef]), Return)
          ELSE IF value.t = "RefList" THEN
            Continue(finish([Cur EXCEPT !.attrs[f.n][attribute] = RefListRemove(value, f.e)]),
                     Return)
          ELSE IF value.t = "RefSet" THEN
            Continue(finish([Cur EXCEPT !.attrs[f.n][attribute] = RefSetRemove(Cur, value, f.e)]),
                     Return)
          ELSE IF value.t = "RefMap" THEN
            Continue(finish([Cur EXCEPT !.attrs[f.n][attribute] =
                               DestroyRefMapKeys(value, RefMapKeys(value), f.e)]),
                     Return)
          ELSE Continue(Cur, Return)

\* r.addFriend(r) is a self-reference, r.addRecentCall(a) with a.addFriend(r)
\* a cycle, and the call list may hold a twice.
RunAddCalls ==
  {Call("r", "friends", "r", NoLabel, NoKey), Call("r", "recentCalls", "a", NoLabel, NoKey),
   Call("a", "friends", "r", NoLabel, NoKey)}

\* A call in progress runs on: the code is synchronous.
Step == StepNode \/ StepEdge \/ StepDestroyRef

NextRun ==
  \/ run.stack = <<>> /\ AddRef(RunAddCalls)
  \/ StartDispose(Local)
  \/ StartDetach(Local)
  \/ StartEdgeDispose
  \/ StepNode
  \/ StepEdge
  \/ StepDestroyRef

SpecRun == Init /\ [][NextRun]_vars /\ WF_vars(Step)

(***************************************************************************)
(* Properties                                                              *)
(***************************************************************************)
NoDup(q) == Cardinality(Range(q)) = Len(q)
Count(q, x) == Len(SelectSeq(q, LAMBDA y : y = x))
\* The edges of a sequence q of edges of state s that lead from o to v under the name at.
Between(s, q, o, at, v) ==
  SelectSeq(q, LAMBDA e : s.edge[e].parent = o /\ s.edge[e].name = at /\ s.edge[e].child = v)
\* Every index of o's graph, restricted to the edges o -> v named at.
IndexBetween(s, o, at, v) ==
  << Between(s, listEdges(s, graph[o]), o, at, v),
     Between(s, listChildEdges(s, graph[o], o), o, at, v),
     Between(s, listParentEdges(s, graph[o], v), o, at, v) >>
\* The edges held in the slots of o that lead to v.
SlotEdgesTo(s, o, v) ==
  {e \in UNION {Range(SlotEdges(s.attrs[o][at])) : at \in Attrs} : s.edge[e].child = v}
\* The edges in the index of o's graph that lead from o to v.
IndexEdgesTo(s, o, v) ==
  {e \in Range(listEdges(s, graph[o])) \cup Range(listChildEdges(s, graph[o], o))
         \cup Range(listParentEdges(s, graph[o], v)) :
     s.edge[e].parent = o /\ s.edge[e].child = v}

\* C1: in every reachable state the three indices of a graph agree: each edge
\* of the master set is in exactly one outgoing bucket, that of its owner, and
\* in exactly one incoming bucket, that of its resource, and no bucket holds
\* an edge that the master set lacks.
IndicesAgree ==
  \A g \in Graphs :
    /\ NoDup(edges[g])
    /\ \A e \in Range(edges[g]) :
         /\ {n \in Nodes : e \in Range(parentEdges[g][n])} = {edge[e].parent}
         /\ {n \in Nodes : e \in Range(childEdges[g][n])} = {edge[e].child}
    /\ \A n \in Nodes :
         /\ NoDup(parentEdges[g][n]) /\ NoDup(childEdges[g][n])
         /\ Range(parentEdges[g][n]) \subseteq Range(edges[g])
         /\ Range(childEdges[g][n]) \subseteq Range(edges[g])

\* C1 happens: edges to several resources are registered and a disposal has
\* taken edges out of the index.
IndicesAgreeWitness ==
  /\ \E n \in Nodes : disposed[n]
  /\ \E e, f \in Range(edges["gA"]) : edge[e].child # edge[f].child
  /\ IndicesAgree

\* C2: the edges registered in a graph's index are exactly the edges held in
\* slots: every edge of the index is held in the slot of its owner that
\* carries its name, once, and is in its owner's outgoing and its resource's
\* incoming bucket; and every edge a slot holds is in the index.
SlotsAreIndex ==
  /\ \A g \in Graphs : \A e \in Range(edges[g]) :
       /\ graph[edge[e].parent] = g
       /\ Count(SlotEdges(attrs[edge[e].parent][edge[e].name]), e) = 1
       /\ e \in Range(parentEdges[g][edge[e].parent])
       /\ e \in Range(childEdges[g][edge[e].child])
  /\ \A n \in Nodes, at \in Attrs : \A e \in Range(SlotEdges(attrs[n][at])) :
       /\ edge[e].parent = n /\ edge[e].name = at
       /\ e \in Range(edges[graph[n]])

\* C3: when n.dispose() returns, n has no children and no parents, is
\* disposed, and no slot of another node leads to n; for every node n in
\* every reachable state.
DisposeLeavesNothing ==
  \A n \in Nodes :
    LET s == NodeDispose(Cur, n)
    IN /\ listChildren(s, graph[n], n) = <<>>
       /\ listParents(s, graph[n], n) = <<>>
       /\ s.disposed[n]
       /\ \A m \in Nodes \ {n}, at \in Attrs : n \notin Range(listRefs(s, m, at))

\* The index of every graph of state s holds edges between its own nodes only.
CrossFree(s) ==
  \A g \in Graphs : \A e \in Range(s.edges[g]) :
    graph[s.edge[e].parent] = g /\ graph[s.edge[e].child] = g
\* The call that ended in state s threw and left no edge across graphs.
Refused(s) == ~Ok(s) /\ CrossFree(s)

\* C4: no edge ever joins two graphs: every edge in a graph's index has its
\* owner and its resource on that graph, and addRef, setRef, setRefMap and
\* the wiring of a default attribute between nodes of different graphs throw,
\* in either direction, whether or not the nodes already have edges.
NoCrossGraphEdge ==
  /\ CrossFree(Cur)
  /\ \A n, v \in Nodes :
       graph[n] # graph[v] =>
         /\ \A at \in {"friends", "recentCalls"} : Refused(addRef(Cur, n, at, v, NoAttributes))
         /\ \A at \in {"partner", "pet"} : Refused(setRef(Cur, n, at, v, NoAttributes))
         /\ \A k \in Keys : Refused(setRefMap(Cur, n, "relatives", k, v, NoAttributes))
         /\ Refused(CreateAttributes(Cur, n, v))

\* C4 happens: both graphs hold edges, so the foreign node of a refused call
\* is in use on its own graph, and calls across the graphs are refused.
NoCrossGraphEdgeWitness ==
  /\ edges["gA"] # <<>>
  /\ edges["gB"] # <<>>
  /\ Refused(addRef(Cur, "r", "friends", "x", NoAttributes))
  /\ Refused(addRef(Cur, "x", "friends", "r", NoAttributes))

\* C5: after addRef is called twice with the same resource on a RefSet slot,
\* listRefs lists the resource once and each of listEdges, listChildEdges of
\* the owner and listParentEdges of the resource holds exactly one edge from
\* the owner to the resource under that attribute.
SetAddTwiceOneEdge ==
  \A o, v \in Nodes :
    graph[o] = graph[v] =>
      LET s1 == addRef(Cur, o, "friends", v, NoAttributes)
          s2 == addRef(s1, o, "friends", v, NoAttributes)
          index == IndexBetween(s2, o, "friends", v)
      IN /\ Ok(s2)
         /\ Count(listRefs(s2, o, "friends"), v) = 1
         /\ \A i \in 1..3 : Len(index[i]) = 1

RECURSIVE AddTimes(_, _, _, _, _)
\* k calls o.addRef(at, v) in a row.
AddTimes(s, o, at, v, k) ==
  IF k = 0 THEN s ELSE AddTimes(addRef(s, o, at, v, NoAttributes), o, at, v, k - 1)

\* C6: on a RefList slot, adding the same resource k times makes k distinct
\* edges, all registered, and listRefs returns the resource k more times, at
\* the end; one removeRef for the resource then takes every edge to it out
\* of the slot and out of the indices, and leaves the other edges where they are.
ListKeepsDuplicates ==
  \A o, v \in Nodes, k \in 1..MaxDup :
    graph[o] = graph[v] =>
      LET at == "recentCalls"
          g == graph[o]
          s1 == AddTimes(Cur, o, at, v, k)
          s2 == removeRef(s1, o, at, v)
          made == [i \in 1..k |-> Len(edge) + i]
          other(e) == ~(edge[e].parent = o /\ edge[e].name = at /\ edge[e].child = v)
      IN /\ Ok(s1) /\ Ok(s2)
         /\ SlotEdges(s1.attrs[o][at]) = SlotEdges(attrs[o][at]) \o made
         /\ listRefs(s1, o, at) = listRefs(Cur, o, at) \o [i \in 1..k |-> v]
         /\ \A i \in 1..3 : IndexBetween(s1, o, at, v)[i] = IndexBetween(Cur, o, at, v)[i] \o made
         /\ SlotEdges(s2.attrs[o][at]) = SelectSeq(SlotEdges(attrs[o][at]), other)
         /\ v \notin Range(listRefs(s2, o, at))
         /\ \A i \in 1..3 : IndexBetween(s2, o, at, v)[i] = <<>>
         /\ listEdges(s2, g) = SelectSeq(listEdges(Cur, g), other)
         /\ \A n \in Nodes :
              /\ listChildEdges(s2, g, n) = SelectSeq(listChildEdges(Cur, g, n), other)
              /\ listParentEdges(s2, g, n) = SelectSeq(listParentEdges(Cur, g, n), other)
         /\ \A n \in Nodes, a \in Attrs : <<n, a>> # <<o, at>> => s2.attrs[n][a] = attrs[n][a]

\* C6 happens: the list of r holds one resource twice, and removeRef for it
\* empties the list of it.
ListKeepsDuplicatesWitness ==
  \E v \in Nodes :
    /\ Count(listRefs(Cur, "r", "recentCalls"), v) = 2
    /\ Count(listRefs(removeRef(Cur, "r", "recentCalls", v), "r", "recentCalls"), v) = 0

\* C7: after o.swap(a, b), a and b distinct nodes of o's graph, o has no edge
\* to a in any slot or in the index, and for every edge o -> a there was,
\* one edge o -> b under the same attribute name, and in a map under the
\* same key, has been made.
SwapReplacesEveryEdge ==
  \A o, a, b \in Nodes :
    (a # b /\ graph[a] = graph[o] /\ graph[b] = graph[o]) =>
      LET s == swap(Cur, o, a, b)
          made == {e \in Len(edge) + 1 .. Len(s.edge) : s.edge[e].parent = o /\ s.edge[e].child = b}
          old == IndexEdgesTo(Cur, o, a) \cup SlotEdgesTo(Cur, o, a)
      IN Ok(s) =>
           /\ SlotEdgesTo(s, o, a) = {}
           /\ IndexEdgesTo(s, o, a) = {}
           /\ \A at \in Attrs, k \in Keys \cup {NoKey} :
                Cardinality({e \in made : s.edge[e].name = at /\ s.edge[e].attributes.key = k})
                  = Cardinality({e \in old : edge[e].name = at /\ edge[e].attributes.key = k})

\* C8: every edge swap(a, b) makes from o to b carries the auxiliary
\* attributes of the edge o -> a it replaces, and afterwards
\* listParentEdges(a) holds no edge from o.
SwapKeepsAttributes ==
  \A o, a, b \in Nodes :
    (a # b /\ graph[a] = graph[o] /\ graph[b] = graph[o]) =>
      LET s == swap(Cur, o, a, b)
          made == {e \in Len(edge) + 1 .. Len(s.edge) : s.edge[e].parent = o /\ s.edge[e].child = b}
          old == SlotEdgesTo(Cur, o, a)
      IN Ok(s) =>
           /\ \A at \in Attrs, x \in {edge[e].attributes : e \in old} :
                Cardinality({e \in made : s.edge[e].name = at /\ s.edge[e].attributes = x})
                  = Cardinality({e \in old : edge[e].name = at /\ edge[e].attributes = x})
           /\ \A e \in Range(listParentEdges(s, graph[a], a)) : s.edge[e].parent # o

\* C9: a.detach() removes every edge whose resource is a and leaves the
\* edges whose owner is a, listChildEdges(a) and the slots of a, as they
\* were; a.dispose() removes the incoming and the outgoing edges.
DetachKeepsOutgoing ==
  \A a \in Local :
    LET s == NodeDetach(Cur, a)
        t == NodeDispose(Cur, a)
    IN /\ listParentEdges(s, graph[a], a) = <<>>
       /\ listChildEdges(s, graph[a], a) = listChildEdges(Cur, graph[a], a)
       /\ s.attrs[a] = attrs[a]
       /\ ~disposed[a] =>
            /\ listParentEdges(t, graph[a], a) = <<>>
            /\ listChildEdges(t, graph[a], a) = <<>>

\* C10: detach() never disposes the node: for every node n that is not
\* disposed, after n.detach() n is still not disposed, has no parents, and
\* a later addRef from another node attaches it again.
DetachKeepsNodeAlive ==
  \A n \in Local :
    ~disposed[n] =>
      LET s == NodeDetach(Cur, n)
          o == CHOOSE m \in Local : m # n
          t == addRef(s, o, "friends", n, NoAttributes)
      IN /\ ~s.disposed[n]
         /\ listParents(s, graph[n], n) = <<>>
         /\ Ok(t) /\ listParents(t, graph[n], n) = <<o>>

RECURSIVE Times(_, _, _)
\* k calls of n.dispose() in a row.
Times(s, n, k) == IF k = 0 THEN s ELSE Times(NodeDispose(s, n), n, k - 1)

\* C11: dispose() on a node that is already disposed changes nothing: the
\* slots, the indices and isDisposed() of every node are as before, and no
\* event is dispatched, however often the call is repeated.
DisposeTwiceNothing ==
  \A n \in Nodes :
    disposed[n] => \A k \in 1..MaxDup : Times(Cur, n, k) = Cur

\* C11 happens: a disposed node that owns nothing but is referenced again,
\* so that a dispose that ran would have edges to remove.
DisposeTwiceNothingWitness ==
  \E n \in Nodes :
    /\ disposed[n]
    /\ listParentEdges(Cur, graph[n], n) # <<>>
    /\ NodeDispose(Cur, n) = Cur

\* C12: the first dispose() of an edge marks it disposed and invokes every
\* listener registered so far once, in registration order, then clears the
\* listeners; a later dispose() invokes nothing and changes nothing; and a
\* disposed edge never becomes live again.
LinkDisposeOnce ==
  /\ [](LET d == LinkDispose(link)
        IN /\ ~link.disposed =>
                /\ d.disposed
                /\ d.invoked = link.invoked \o link.listeners
                /\ d.listeners = <<>>
           /\ link.disposed => d = link
           /\ LinkDispose(d) = d)
  /\ [][link.disposed => link'.disposed]_vars

\* C12 happens: the Link is disposed, two listeners were invoked, and a
\* listener registered after the disposal is still waiting.
LinkDisposeOnceWitness ==
  /\ link.disposed
  /\ Len(link.invoked) >= 2
  /\ link.listeners # <<>>

\* The targets of the node:dispose events a graph-level listener receives.
DisposedSeen(log) ==
  LET q == SelectSeq(log, LAMBDA ev : ev.type = "node:dispose")
  IN [i \in 1..Len(q) |-> q[i].target]

\* C13: a graph-level node:dispose listener receives one event per disposed
\* node, with that node as target, in the order of the dispose() calls:
\* disposing n1 and then n2 is observed as [n1, n2].
DisposeEventsInOrder ==
  \A n1, n2 \in Local :
    (n1 # n2 /\ ~disposed[n1] /\ ~disposed[n2]) =>
      DisposedSeen(NodeDispose(NodeDispose(Cur, n1), n2).log) = <<n1, n2>>

\* The states in which the calls of Spec end when made in the current state.
Outcomes ==
  {setRef(Cur, c.n, c.attribute, c.value, Attributes(c.label, NoKey)) : c \in SetRefCalls}
  \cup {addRef(Cur, c.n, c.attribute, c.value, Attributes(c.label, NoKey)) : c \in AddRefCalls}
  \cup {removeRef(Cur, c.n, c.attribute, c.value) : c \in RemoveRefCalls}
  \cup {setRefMap(Cur, c.n, c.attribute, c.key, c.value, Attributes(NoLabel, c.label)) :
          c \in SetRefMapCalls}
  \cup {swap(Cur, c.n, c.prevValue, c.nextValue) : c \in SwapCalls}
  \cup {NodeDetach(Cur, n) : n \in Local}
  \cup {NodeDispose(Cur, n) : n \in Local}
  \cup {EdgeDispose(Cur, e) : e \in 1..Len(edge)}

\* C14: every change or dispose event dispatched on a node is followed at
\* once by an event on the node's graph with the type prefixed node: and the
\* same target, attribute and key; no node event comes without it.
GraphHearsEveryEvent ==
  \A s \in Outcomes :
    /\ Len(s.log) % 2 = 0
    /\ \A i \in 1..Len(s.log) :
         i % 2 = 1 =>
           /\ s.log[i].on \in Nodes
           /\ s.log[i].target = s.log[i].on
           /\ s.log[i].type \in {"change", "dispose"}
           /\ s.log[i + 1] = Event(graph[s.log[i].on], GraphType(s.log[i].type), s.log[i].on,
                                   s.log[i].attribute, s.log[i].key)

\* C14 happens: one call dispatches change events and a dispose event.
GraphHearsEveryEventWitness ==
  \E s \in Outcomes :
    /\ \E i \in 1..Len(s.log) : s.log[i].type = "dispose"
    /\ \E i \in 1..Len(s.log) : s.log[i].type = "change"
    /\ \E i \in 1..Len(s.log) : s.log[i].type = "node:dispose"

\* C15: setRef on a slot populated from getDefaults throws for every value,
\* null included, and leaves the slot, the indices and the child unchanged
\* and dispatches no event.
ImmutableSlotRefusesSetRef ==
  \A n \in Nodes, v \in Nodes \cup {NoNode} :
    "pet" \in immutableKeys[n] =>
      LET s == setRef(Cur, n, "pet", v, NoAttributes)
      IN s = Throw(Cur, "Cannot overwrite immutable attribute")

\* C15 happens: an immutable slot holds its child, and setRef(null) on it throws.
ImmutableSlotRefusesSetRefWitness ==
  \E n \in Nodes :
    /\ "pet" \in immutableKeys[n]
    /\ attrs[n]["pet"].t = "edge"
    /\ ~Ok(setRef(Cur, n, "pet", NoNode, NoAttributes))

\* C16: when creating an edge fails because owner and resource are on
\* different graphs, no partial edge is made: the edge set and the outgoing
\* and incoming buckets of both graphs are as before the call.
NoPartialEdge ==
  \A n, v \in Nodes :
    graph[n] # graph[v] =>
      \A s \in {CreateEdge(Cur, g, at, n, v, NoAttributes) : g \in Graphs, at \in Attrs}
             \cup {addRef(Cur, n, at, v, NoAttributes) : at \in {"friends", "recentCalls"}} :
        /\ ~Ok(s)
        /\ s.edge = edge /\ s.edges = edges
        /\ s.parentEdges = parentEdges /\ s.childEdges = childEdges

\* C16 happens: both graphs have edges registered when an edge across them
\* is refused.
NoPartialEdgeWitness ==
  /\ Len(edges["gA"]) >= 2
  /\ Len(edges["gB"]) >= 1
  /\ ~Ok(CreateEdge(Cur, "gA", "friends", "r", "x", NoAttributes))

\* C17: removeRef(attr, n) on a RefList or RefSet slot that holds no edge to
\* n raises no error, changes no slot and no index and dispatches no event,
\* however often it is repeated.
RemoveAbsentNothing ==
  \A o, v \in Nodes, at \in {"friends", "recentCalls"} :
    v \notin Range(listRefs(Cur, o, at)) =>
      /\ removeRef(Cur, o, at, v) = Cur
      /\ removeRef(removeRef(Cur, o, at, v), o, at, v) = Cur

\* C17 happens: the set and the list of r hold references, none of them to
\* v, and removeRef for v leaves everything alone.
RemoveAbsentNothingWitness ==
  \E v \in Local :
    /\ listRefs(Cur, "r", "friends") # <<>>
    /\ listRefs(Cur, "r", "recentCalls") # <<>>
    /\ v \notin Range(listRefs(Cur, "r", "friends")) \cup Range(listRefs(Cur, "r", "recentCalls"))
    /\ removeRef(Cur, "r", "friends", v) = Cur

RECURSIVE Composed(_, _)
\* The nodes n owns through immutable slots, directly or along a chain.
Composed(s, n) ==
  LET v == s.attrs[n]["pet"]
  IN IF "pet" \in s.immutableKeys[n] /\ v.t = "edge"
     THEN {s.edge[v.ref].child} \cup Composed(s, s.edge[v.ref].child)
     ELSE {}
\* The edges of the index of n's graph that start or end at n.
Incident(s, n) ==
  {e \in Range(s.edges[graph[n]]) : s.edge[e].parent = n \/ s.edge[e].child = n}
  \cup Range(s.parentEdges[graph[n]][n]) \cup Range(s.childEdges[graph[n]][n])

\* C18: when a node that owns a child through an immutable slot is disposed,
\* the child is disposed too and has no incident edge, and so is every node
\* further along a chain of immutable slots.
DisposeTakesComposed ==
  \A n \in Nodes :
    ~disposed[n] =>
      LET s == NodeDispose(Cur, n)
      IN \A c \in Composed(Cur, n) : s.disposed[c] /\ Incident(s, c) = {}

\* C18 happens: r composes a, a composes b, b is referenced by r as well,
\* and disposing r disposes both.
DisposeTakesComposedWitness ==
  /\ Composed(Cur, "r") = {"a", "b"}
  /\ Cardinality(Incident(Cur, "b")) >= 2
  /\ ~disposed["r"] /\ ~disposed["b"]
  /\ NodeDispose(Cur, "r").disposed["b"]

\* The owners of the edges into n, n itself left out.
Owners(s, n) == {s.edge[e].parent : e \in Range(listParentEdges(s, graph[n], n))} \ {n}
\* n.dispose() and n.detach(), made in state s.
Removals(s, n) == {NodeDispose(s, n), NodeDetach(s, n)}
\* The edges the slot at of o holds in state s to nodes outside gone.
Kept(s, o, at, gone) == SelectSeq(SlotEdges(s.attrs[o][at]), LAMBDA e : s.edge[e].child \notin gone)

WithBackReference ==
  {Cur} \cup {addRef(Cur, c, "friends", o, NoAttributes) : o \in {m \in Local : Composed(Cur, m) # {}},
                                                           c \in {"a", "b"}}

Disconnections == {DisconnectParents(Cur, graph[n], n, {o}) : n, o \in Local}
\* The edges disposed by the call that led from the current state to s.
Disposed(s) ==
  {e \in 1..Len(s.edge) : s.edge[e].disposed /\ (e > Len(edge) \/ ~edge[e].disposed)}
\* Edge e is in no slot and in no index of state s.
Gone(s, e) ==
  LET o == s.edge[e].parent
      v == s.attrs[o][s.edge[e].name]
      g == graph[o]
  IN /\ \A n \in Nodes, at \in Attrs : e \notin Range(SlotEdges(s.attrs[n][at]))
     /\ v.t = "RefSet" => \A p \in v.map : p[2] # e
     /\ e \notin Range(s.edges[g])
     /\ \A n \in Nodes : e \notin Range(s.parentEdges[g][n]) \cup Range(s.childEdges[g][n])

\* The slot at of o holds exactly the edges the index has from o under at.
SlotAgrees(s, o, at) ==
  Range(SlotEdges(s.attrs[o][at])) =
    {e \in Range(s.edges[graph[o]]) \cup Range(s.parentEdges[graph[o]][o]) :
       s.edge[e].parent = o /\ s.edge[e].name = at}

\* C20: wherever the disposal of an edge starts (on the edge, in removeRef,
\* setRef, setRefMap, swap, node dispose, detach or disconnectParents), the
\* edge leaves the slot of its owner and the three indices, and the owner
\* dispatches a change event for the attribute; afterwards the slot of the
\* owner and the graph agree.
EdgeDisposalCleans ==
  \A s \in Outcomes \cup Disconnections : \A e \in Disposed(s) :
    /\ Gone(s, e)
    /\ \E i \in 1..Len(s.log) :
         s.log[i] = Event(s.edge[e].parent, "change", s.edge[e].parent, s.edge[e].name, NoKey)
    /\ Ok(s) => SlotAgrees(s, s.edge[e].parent, s.edge[e].name)

\* The edges n owns under the name at, as the master set and as the outgoing
\* bucket of n list them.
IndexNamed(s, n, at) ==
  << SelectSeq(listEdges(s, graph[n]), LAMBDA e : s.edge[e].parent = n /\ s.edge[e].name = at),
     SelectSeq(listChildEdges(s, graph[n], n), LAMBDA e : s.edge[e].name = at) >>

\* C21: setRef(attr, v) on a mutable single-reference slot disposes the edge
\* the slot holds, if any, which leaves the indices and the incoming bucket
\* of the old target; with v a node it then makes exactly one edge to v and
\* stores it, so that getRef(attr) is v and the graph holds exactly one edge
\* from the owner named attr; with null the slot is empty, getRef(attr) is
\* null and the graph holds no edge from the owner named attr.
SetRefReplacesEdge ==
  \A n \in Nodes, v \in Nodes \cup {NoNode} :
    (v = NoNode \/ canLink(n, v)) =>
      LET at == "partner"
          prev == attrs[n][at]
          s == setRef(Cur, n, at, v, NoAttributes)
          new == Len(edge) + 1
      IN /\ Ok(s)
         /\ prev.t = "edge" =>
              /\ s.edge[prev.ref].disposed
              /\ Gone(s, prev.ref)
              /\ prev.ref \notin Range(listParentEdges(s, graph[n], edge[prev.ref].child))
         /\ v # NoNode =>
              /\ Len(s.edge) = new
              /\ s.edge[new] = [name |-> at, parent |-> n, child |-> v,
                                attributes |-> NoAttributes, disposed |-> FALSE]
              /\ s.attrs[n][at] = EdgeRef(new)
              /\ getRef(s, n, at) = v
              /\ IndexNamed(s, n, at) = << <<new>>, <<new>> >>
              /\ SelectSeq(listParentEdges(s, graph[n], v),
                           LAMBDA e : s.edge[e].parent = n /\ s.edge[e].name = at) = <<new>>
         /\ v = NoNode =>
              /\ Len(s.edge) = Len(edge)
              /\ s.attrs[n][at] = NullRef
              /\ getRef(s, n, at) = NoNode
              /\ IndexNamed(s, n, at) = << <<>>, <<>> >>

\* C21 happens: the partner of r is a, and setting it to b takes the old
\* edge out of the incoming bucket of a and makes b the partner.
SetRefReplacesEdgeWitness ==
  /\ getRef(Cur, "r", "partner") = "a"
  /\ LET s == setRef(Cur, "r", "partner", "b", NoAttributes)
     IN /\ getRef(s, "r", "partner") = "b"
        /\ attrs["r"]["partner"].ref \notin Range(listParentEdges(s, "gA", "a"))
        /\ attrs["r"]["partner"].ref \in Range(listParentEdges(Cur, "gA", "a"))

\* Did the call that ended in s dispatch a change event for at on n, and
\* node:change on the graph of n?
ChangeHeard(s, n, at) ==
  /\ \E i \in 1..Len(s.log) : s.log[i] = Event(n, "change", n, at, NoKey)
  /\ \E i \in 1..Len(s.log) : s.log[i] = Event(graph[n], "node:change", n, at, NoKey)

\* C22: every setRef call that does not fail dispatches a change event for
\* the attribute on the owner and node:change on the graph, when a node is
\* set and when the slot is cleared with null, also when it was empty.
SetRefAlwaysChanges ==
  \A n \in Nodes, v \in Nodes \cup {NoNode} :
    LET s == setRef(Cur, n, "partner", v, NoAttributes)
    IN Ok(s) => ChangeHeard(s, n, "partner")

\* The edges of the master set of n's graph that lead into n, and out of n.
EdgesInto(s, n) == {e \in Range(listEdges(s, graph[n])) : s.edge[e].child = n}
EdgesOutOf(s, n) == {e \in Range(listEdges(s, graph[n])) : s.edge[e].parent = n}
\* The oldest edge of a non-empty set: identities grow with creation.
Oldest(es) == CHOOSE e \in es : \A f \in es : e <= f

\* C23: listParents(n) holds each distinct owner of an edge into n once and
\* listChildren(n) each distinct resource of an edge out of n once, however
\* many edges and attribute names link the two nodes, in the order in which
\* the first edge to each was created; both are empty without such edges.
ListsAreDistinctEnds ==
  \A n \in Nodes :
    LET ps == listParents(Cur, graph[n], n)
        cs == listChildren(Cur, graph[n], n)
        firstFrom(o) == Oldest({e \in EdgesInto(Cur, n) : edge[e].parent = o})
        firstTo(v) == Oldest({e \in EdgesOutOf(Cur, n) : edge[e].child = v})
    IN /\ NoDup(ps)
       /\ Range(ps) = {edge[e].parent : e \in EdgesInto(Cur, n)}
       /\ \A i, j \in 1..Len(ps) : i < j => firstFrom(ps[i]) < firstFrom(ps[j])
       /\ NoDup(cs)
       /\ Range(cs) = {edge[e].child : e \in EdgesOutOf(Cur, n)}
       /\ \A i, j \in 1..Len(cs) : i < j => firstTo(cs[i]) < firstTo(cs[j])

\* C23 happens: b is composed by a and referenced by r under two attribute
\* names, r composes a: three edges lead into b from two owners and three
\* out of r to two resources, and none leads into r.
ListsAreDistinctEndsWitness ==
  /\ Cardinality(EdgesInto(Cur, "b")) = 3
  /\ Cardinality({edge[e].name : e \in EdgesInto(Cur, "b")}) = 3
  /\ listParents(Cur, "gA", "b") = <<"a", "r">>
  /\ Cardinality(EdgesOutOf(Cur, "r")) = 3
  /\ listChildren(Cur, "gA", "r") = <<"a", "b">>
  /\ listParents(Cur, "gA", "r") = <<>>

\* The live edges of graph g in state s: constructed and not disposed.
LiveEdges(s, g) ==
  {e \in 1..Len(s.edge) : ~s.edge[e].disposed /\ graph[s.edge[e].parent] = g}
\* The lists of state s hold exactly the live edges, each once.
ListsAreLive(s) ==
  \A g \in Graphs :
    /\ NoDup(listEdges(s, g))
    /\ Range(listEdges(s, g)) = LiveEdges(s, g)
    /\ \A n \in Nodes :
         /\ NoDup(listParentEdges(s, g, n)) /\ NoDup(listChildEdges(s, g, n))
         /\ Range(listParentEdges(s, g, n)) =
              IF graph[n] = g THEN {e \in LiveEdges(s, g) : s.edge[e].child = n} ELSE {}
         /\ Range(listChildEdges(s, g, n)) =
              IF graph[n] = g THEN {e \in LiveEdges(s, g) : s.edge[e].parent = n} ELSE {}

\* C24: in every reachable state, and when any call returns with the edge
\* objects it made and disposed still at hand, listEdges() is exactly the
\* live edges of the graph, listParentEdges(n) the live edges whose resource
\* is n and listChildEdges(n) the live edges whose owner is n, each edge
\* once; a node without such edges yields the empty list.
ListsAreLiveEdges == \A s \in {Cur} \cup Outcomes : ListsAreLive(s)

\* C24 happens: a node was disposed and has no edges listed, while the graph
\* lists several live edges, two of them into one node.
ListsAreLiveEdgesWitness ==
  /\ \E n \in Local :
       /\ disposed[n]
       /\ listParentEdges(Cur, "gA", n) = <<>> /\ listChildEdges(Cur, "gA", n) = <<>>
  /\ \E n \in Local : Len(listParentEdges(Cur, "gA", n)) >= 2
  /\ Len(listEdges(Cur, "gA")) >= 3
  /\ ListsAreLive(Cur)

\* The map slot of o in state s, and the keys under which it holds an edge
\* to a node of the set vs.
Relatives(s, o) == s.attrs[o]["relatives"]
KeysTo(s, o, vs) ==
  {k \in Keys : RefMapHas(Relatives(s, o), k) /\ s.edge[RefMapGet(Relatives(s, o), k)].child \in vs}
\* Key k of o's map holds the same edge in s as in the current state.
SameUnder(s, o, k) ==
  /\ RefMapHas(Relatives(s, o), k)
  /\ RefMapGet(Relatives(s, o), k) = RefMapGet(Relatives(Cur, o), k)

\* One edge per key; setRefMap(attr, k, v) disposes the edge under k, puts
\* one new edge to v there and leaves every other key with its edge.
OneEdgePerKey ==
  /\ \A o \in Nodes : NoDup(RefMapKeys(Relatives(Cur, o)))
  /\ \A o \in Nodes, k \in Keys, v \in Nodes :
       canLink(o, v) =>
         LET s == setRefMap(Cur, o, "relatives", k, v, NoAttributes)
             new == Len(edge) + 1
         IN /\ Ok(s)
            /\ NoDup(RefMapKeys(Relatives(s, o)))
            /\ Len(s.edge) = new /\ s.edge[new].child = v
            /\ RefMapHas(Relatives(s, o), k) /\ RefMapGet(Relatives(s, o), k) = new
            /\ RefMapHas(Relatives(Cur, o), k) =>
                 LET prev == RefMapGet(Relatives(Cur, o), k)
                 IN s.edge[prev].disposed /\ Gone(s, prev)
            /\ \A k2 \in Keys \ {k} :
                 IF RefMapHas(Relatives(Cur, o), k2) THEN SameUnder(s, o, k2)
                 ELSE ~RefMapHas(Relatives(s, o), k2)

\* C25 as stated: a RefMap slot holds at most one edge per key, setRefMap
\* replaces only the edge under its key, and detaching or disposing a
\* resource removes from the maps of the other nodes every key that
\* referenced it and no other key.
MapLosesOnlyKeysOfResource ==
  /\ OneEdgePerKey
  /\ \A v \in Local : \A s \in Removals(Cur, v) : \A o \in Nodes \ {v} :
       /\ KeysTo(s, o, {v}) = {}
       /\ \A k \in KeysTo(Cur, o, Nodes \ {v}) : SameUnder(s, o, k)

\* Every edge a RefMap slot of state s holds carries the key it is held under.
KeyRecorded(s) ==
  \A o \in Nodes : \A i \in 1..Len(Relatives(s, o).map) :
    s.edge[Relatives(s, o).map[i].ref].attributes.key = Relatives(s, o).map[i].key

\* C26: in every reachable state every edge held in a RefMap slot under key k
\* has k as the key entry of its auxiliary attributes; so has every edge
\* swap makes, and every edge setRefMap makes from metadata that carries
\* another key or none.
MapEdgesRecordKey ==
  /\ KeyRecorded(Cur)
  /\ \A o \in Nodes, k \in Keys, v \in Nodes, k2 \in Keys \cup {NoKey} :
       LET s == setRefMap(Cur, o, "relatives", k, v, Attributes(NoLabel, k2))
       IN KeyRecorded(s) /\ (Ok(s) => s.edge[Len(s.edge)].attributes.key = k)
  /\ \A c \in SwapCalls : KeyRecorded(swap(Cur, c.n, c.prevValue, c.nextValue))

\* C26 happens: r holds a under k1; swapping a for b makes an edge to b
\* that records k1, and an edge made with metadata naming k2 records k1.
MapEdgesRecordKeyWitness ==
  /\ KeysTo(Cur, "r", {"a"}) = {"k1"}
  /\ LET s == swap(Cur, "r", "a", "b")
     IN /\ KeysTo(s, "r", {"b"}) = {"k1"}
        /\ s.edge[RefMapGet(Relatives(s, "r"), "k1")].attributes.key = "k1"
        /\ RefMapGet(Relatives(s, "r"), "k1") > Len(edge)
  /\ LET s == setRefMap(Cur, "r", "relatives", "k1", "b", Attributes(NoLabel, "k2"))
     IN s.edge[RefMapGet(Relatives(s, "r"), "k1")].attributes = Attributes(NoLabel, "k1")

\* The edges into n that sit in an immutable slot of their owner.
ComposingEdges(s, n) ==
  {e \in Range(listParentEdges(s, graph[n], n)) :
     /\ s.edge[e].name \in s.immutableKeys[s.edge[e].parent]
     /\ s.attrs[s.edge[e].parent][s.edge[e].name] = EdgeRef(e)}

\* C27: an immutable composed child has at most one owner: in every reachable
\* state a node is the resource of at most one edge of an immutable slot.
OneComposingOwner == \A n \in Nodes : Cardinality(ComposingEdges(Cur, n)) <= 1

\* Edge e is in the indices and in the slots of state s as it is in the
\* current state.
Remains(s, e) ==
  LET g == graph[edge[e].parent]
      o == edge[e].parent
      at == edge[e].name
  IN /\ ~s.edge[e].disposed
     /\ e \in Range(s.edges[g]) <=> e \in Range(edges[g])
     /\ e \in Range(s.parentEdges[g][o]) <=> e \in Range(parentEdges[g][o])
     /\ e \in Range(s.childEdges[g][edge[e].child]) <=> e \in Range(childEdges[g][edge[e].child])
     /\ Count(SlotEdges(s.attrs[o][at]), e) = Count(SlotEdges(attrs[o][at]), e)

\* C28: graph.disconnectParents(n, filter) disposes exactly the edges into n
\* whose owner passes the filter, all edges into n without a filter; edges
\* into n from other owners, edges out of n and edges between other nodes
\* remain in the graph and in their slots.
DisconnectParentsExactly ==
  \A n \in Local, accept \in SUBSET Local :
    LET s == DisconnectParents(Cur, graph[n], n, accept)
        aimed == {e \in Range(listParentEdges(Cur, graph[n], n)) : edge[e].parent \in accept}
    IN /\ Disposed(s) = aimed
       /\ \A e \in aimed : Gone(s, e)
       /\ \A e \in (1..Len(edge)) \ aimed : ~edge[e].disposed => Remains(s, e)

\* C29: in every reachable state, also after an edge obtained from the graph
\* was disposed directly, listRefs on a RefSet slot holds each resource at
\* most once.
SetListsEachOnce == \A n \in Nodes : NoDup(listRefs(Cur, n, "friends"))

\* C30: addRef on a RefSet slot with a resource that is already present
\* leaves listRefs(attr) as it was: the same resources in the same order,
\* whatever the set held before.
SetAddPresentKeepsOrder ==
  \A o, v \in Nodes :
    v \in Range(listRefs(Cur, o, "friends")) =>
      LET s == addRef(Cur, o, "friends", v, NoAttributes)
      IN Ok(s) /\ listRefs(s, o, "friends") = listRefs(Cur, o, "friends")

\* How often a call dispatched the event type with node n as its target.
Heard(s, type, n) ==
  Cardinality({i \in 1..Len(s.log) : s.log[i].type = type /\ s.log[i].target = n})

\* C31: each node dispatches its dispose event at most once, and its graph
\* the matching node:dispose event at most once: a call dispatches them at
\* most once for a node that is not disposed yet and never for a node that
\* is disposed, whether the node is disposed directly, detached or disposed
\* through its owner.
DisposeEventOnce ==
  \A s \in Outcomes : \A n \in Nodes :
    /\ Heard(s, "dispose", n) <= (IF disposed[n] THEN 0 ELSE 1)
    /\ Heard(s, "node:dispose", n) <= (IF disposed[n] THEN 0 ELSE 1)

\* C32: whenever a listener receives the dispose event (or the graph's
\* node:dispose event) for node n, n.isDisposed() is already true and the
\* graph index holds no edge with n as owner or as resource.
DisposeHeardWhenGone ==
  \A s \in Outcomes : \A i \in 1..Len(s.found) :
    /\ s.found[i].isDisposed
    /\ s.found[i].indexed = {}

\* The edges some slot of some node holds.
Slotted(s) ==
  UNION {Range(SlotEdges(s.attrs[o][at])) : o \in Nodes, at \in Attrs}

\* C33: a disposed node is never reused: a node whose isDisposed() is true
\* is neither owner nor resource of any edge in the graph index and of no
\* edge held in a slot.
DisposedNeverReused ==
  \A n \in Nodes :
    disposed[n] =>
      \A e \in Range(listEdges(Cur, graph[n])) \cup Range(listChildEdges(Cur, graph[n], n))
               \cup Range(listParentEdges(Cur, graph[n], n)) \cup Slotted(Cur) :
        n \notin {edge[e].parent, edge[e].child}

\* The call that ended in state s threw and did nothing else: slots, indices,
\* edges and flags are as in the current state and no event was dispatched.
NoEffect(s) == ~Ok(s) /\ [s EXCEPT !.err = NoError] = Cur

\* C34: a setRef or setRefMap that fails because the new value belongs to
\* another graph has no effect: the slot (or map key) still holds its
\* previous edge, that edge is still live and in the graph indices, and no
\* change event was dispatched.
CrossSetHasNoEffect ==
  \A n, v \in Nodes :
    graph[n] # graph[v] =>
      /\ NoEffect(setRef(Cur, n, "partner", v, NoAttributes))
      /\ \A k \in Keys : NoEffect(setRefMap(Cur, n, "relatives", k, v, NoAttributes))

\* C35: addRef on an attribute that is not a RefList or RefSet slot fails
\* and creates no edge: the graph's edge set and buckets and every node's
\* slots are as before the call, so a later dispose of the would-be resource
\* leaves it with no parents.
AddRefWrongKindNoEdge ==
  \A o, v \in Local, at \in {"partner", "relatives", "pet"} :
    LET s == addRef(Cur, o, at, v, NoAttributes)
        t == NodeDispose([s EXCEPT !.err = NoError], v)
    IN /\ ~Ok(s)
       /\ s.edge = edge /\ s.edges = edges
       /\ s.parentEdges = parentEdges /\ s.childEdges = childEdges
       /\ s.attrs = attrs
       /\ listParentEdges(t, graph[v], v) = <<>>

\* C36: a swap(old, new) that fails part-way, because a slot pointing at old
\* is immutable or because new is on another graph, has no effect: every
\* slot of the owner and the graph indices are as before the call, with no
\* reference replaced or removed.
FailedSwapHasNoEffect ==
  \A o, old, new \in Nodes :
    LET s == swap(Cur, o, old, new)
    IN ~Ok(s) => /\ s.attrs = attrs
                 /\ s.edge = edge /\ s.edges = edges
                 /\ s.parentEdges = parentEdges /\ s.childEdges = childEdges

\* The composition the nodes were constructed with when there is one.
Composition == CHOOSE layout \in Layouts : \E n \in Nodes : layout[n] # NoNode

\* The immutable slot at of owner o holds the live edge to the child that
\* getDefaults supplied.
HoldsDefault(s, o, at) ==
  /\ s.attrs[o][at].t = "edge"
  /\ ~s.edge[s.attrs[o][at].ref].disposed
  /\ s.edge[s.attrs[o][at].ref].parent = o
  /\ s.edge[s.attrs[o][at].ref].child = Composition[o]

Replaced(q, old, new) == [i \in 1..Len(q) |-> IF q[i] = old THEN new ELSE q[i]]

\* C38: swap(old, new) on a RefList or RefSet slot replaces in place:
\* afterwards listRefs(attr) is the previous list with each occurrence of old
\* replaced by new at the same position, all other entries where they were
\* (for a set, when new was not in it before).
SwapReplacesInPlace ==
  \A o, old, new \in Local :
    LET s == swap(Cur, o, old, new)
    IN (old # new /\ Ok(s)) =>
         /\ listRefs(s, o, "recentCalls") = Replaced(listRefs(Cur, o, "recentCalls"), old, new)
         /\ new \notin Range(listRefs(Cur, o, "friends")) =>
              listRefs(s, o, "friends") = Replaced(listRefs(Cur, o, "friends"), old, new)

\* C39: every call to node dispose(), node detach() or edge dispose()
\* terminates, on graphs with reference cycles, self-references and chains
\* of immutable children too, where the cascade re-enters dispose() of a node
\* or edge whose disposal is in progress: a call in progress always returns.
EveryCallReturns == (run.stack # <<>>) ~> (run.stack = <<>>)

\* C39 happens: on a graph with a self-reference and a reference cycle, the
\* dispose() of a composed child is in progress and has been re-entered
\* through its owner's immutable slot: the stack holds two dispose frames of
\* the same node, the second called for an edge whose disposal is under way.
EveryCallReturnsWitness ==
  /\ \E e \in 1..Len(edge) : edge[e].parent = edge[e].child
  /\ \E e1, e2 \in 1..Len(edge) :
       /\ edge[e1].parent # edge[e1].child
       /\ edge[e1].parent = edge[e2].child /\ edge[e2].parent = edge[e1].child
  /\ \E i, j \in 1..Len(run.stack) :
       /\ i < j
       /\ run.stack[i].op = "dispose" /\ run.stack[j].op = "dispose"
       /\ run.stack[i].n = run.stack[j].n
       /\ \E k \in (i + 1)..(j - 1) :
            run.stack[k].op = "edge" /\ edge[run.stack[k].e].disposed

\* The call c made in state s, as a whole.
Whole(c, s) ==
  IF c.op = "dispose" THEN NodeDispose(s, c.n)
  ELSE IF c.op = "detach" THEN NodeDetach(s, c.n)
  ELSE EdgeDispose(s, c.e)

\* The steps of a call end in the state the call as a whole ends in.
StepsAgreeWithCall ==
  [][(run.stack # <<>> /\ run'.stack = <<>>) =>
       \E b \in {Collect(Whole(run.call, run.entry))} :
          /\ edge' = b.edge /\ edges' = b.edges
          /\ parentEdges' = b.parentEdges /\ childEdges' = b.childEdges
          /\ attrs' = b.attrs /\ immutableKeys' = b.immutableKeys
          /\ disposed' = b.disposed]_vars

====
